---- MODULE Spec2Model ----
(***************************************************************************)
(* A model of the 6502 core of ewm (src/cpu.c): the region list and the    *)
(* cached zero-page/stack buffer, ROM images loaded from files, the stack  *)
(* primitives, the packed status byte, the instruction dispatcher with its *)
(* tracer, the run loop and reset/irq/nmi.                                 *)
(*                                                                         *)
(* The bus (mem.c), the opcode table (ins.c) and the declarations (cpu.h,  *)
(* mem.h, ins.h) are not part of src/; what the model needs of them is     *)
(* written from spec.md.                                                   *)
(***************************************************************************)
EXTENDS Integers, Sequences, FiniteSets, TLC

VARIABLES
    cpu,    \* struct cpu_t: registers, flags, strict, trace, mem list, memory
    heap,   \* the buffers that mem->obj and cpu->memory point to
    hist,   \* ghost: the regions in the order they were registered
    call,   \* ghost: the last call, its argument and what it returned
    loop,   \* cpu_run: whether the loop is running, and instruction_count
    used    \* ghost: the calls and host writes made so far

vars == <<cpu, heap, hist, call, loop, used>>

-----------------------------------------------------------------------------
(* Widths and fixed addresses *)

Byte == 0..255

U8(x)  == x % 256
U16(x) == x % 65536

\* the null data pointer (buffers are numbered from 1) and the null handler
NULL == 0
NO_HANDLER == "NULL"

STACK_PAGE == 256

EWM_VECTOR_NMI == 65530
EWM_VECTOR_RES == 65532
EWM_VECTOR_IRQ == 65534

\* the nonzero error codes of cpu.h
EWM_CPU_ERR_UNIMPLEMENTED_INSTRUCTION == 1
EWM_CPU_ERR_STACK_OVERFLOW            == 2
EWM_CPU_ERR_STACK_UNDERFLOW           == 3

\* in the ghost call: the call has not returned yet, and the call never
\* returned because the process died in it
PENDING == 0 - 1
CRASHED == 0 - 2

\* bit k of x, and x & (1 << k)
Bit(x, k)     == (x \div (2 ^ k)) % 2
AndMask(x, k) == Bit(x, k) * (2 ^ k)

\* (f != 0) & 0x01
NonZero(f) == IF f # 0 THEN 1 ELSE 0

\* x << k, and x | y on 16 bits
Shl(x, k) == x * (2 ^ k)

BitOr(x, y) ==
    LET or(k) == IF Bit(x, k) = 1 \/ Bit(y, k) = 1 THEN 2 ^ k ELSE 0
    IN  or(0) + or(1) + or(2) + or(3) + or(4) + or(5) + or(6) + or(7)
        + or(8) + or(9) + or(10) + or(11) + or(12) + or(13) + or(14) + or(15)

-----------------------------------------------------------------------------
(* Bounds of the model *)

MaxRegions == 2     \* registrations in one behaviour
MaxCalls   == 2     \* reset/irq/nmi/step calls in one behaviour
MaxWrites  == 1     \* host writes through the bus in one behaviour
MaxCount   == 2     \* instructions one cpu_run executes

-----------------------------------------------------------------------------
(* Buffers.  A buffer is what malloc or the caller handed over: its        *)
(* contents before any write (a fill byte, or a caller's image) and the    *)
(* cells written since.                                                    *)

\* The image the host passes to cpu_add_rom_data: a short program and, in
\* the boot image (mapped at 0xFF00), the three vectors.
ImageByte(img, off) ==
    CASE img = "boot" ->
           CASE off = 0   -> 169      \* FF00: LDA #$80
             [] off = 1   -> 128
             [] off = 2   -> 72       \* FF02: PHA
             [] off = 3   -> 32       \* FF03: JSR $FF20
             [] off = 4   -> 32
             [] off = 5   -> 255
             [] off = 6   -> 2        \* FF06: no handler
             [] off = 16  -> 104      \* FF10: PLA      (irq entry)
             [] off = 17  -> 76       \* FF11: JMP $FF00
             [] off = 18  -> 0
             [] off = 19  -> 255
             [] off = 32  -> 96       \* FF20: RTS      (nmi entry)
             [] off = 48  -> 3        \* FF30: no handler, stack 3
             [] off = 64  -> 0        \* FF40: BRK
             [] off = 80  -> 234      \* FF50: NOP
             [] off = 250 -> 32       \* FFFA: nmi -> FF20
             [] off = 251 -> 255
             [] off = 252 -> 0        \* FFFC: res -> FF00
             [] off = 253 -> 255
             [] off = 254 -> 16       \* FFFE: irq -> FF10
             [] off = 255 -> 255
             [] OTHER     -> 234
      [] img = "patch" -> 52 + (off % 2)
      [] img = "top" ->
           CASE off = 0   -> 32       \* FFFE: JSR, its operand at FFFF and 0000
             [] OTHER     -> 169      \* FFFF: LDA #, its operand at 0000
      [] OTHER -> 0

BufBase(buf, off) ==
    IF buf.image = "none" THEN buf.fill ELSE ImageByte(buf.image, off)

BufGet(buf, off) ==
    IF off \in DOMAIN buf.cells THEN buf.cells[off] ELSE BufBase(buf, off)

BufSet(buf, off, b) ==
    LET dom == IF b = BufBase(buf, off)
               THEN DOMAIN buf.cells \ {off}
               ELSE DOMAIN buf.cells \cup {off}
    IN  [buf EXCEPT !.cells = [o \in dom |-> IF o = off THEN b ELSE buf.cells[o]]]

\* What malloc(length) may hold: the block is not cleared.
Garbage == {0, 165}

-----------------------------------------------------------------------------
(* The memory bus (mem.c), from spec.md 4.1: scan the regions in list      *)
(* order and delegate to the first one that covers the address.  A read    *)
(* or write of an address no region covers is undefined; the actions below *)
(* are only taken where every address they touch is covered.               *)

Covers(r, addr) == r.start <= addr /\ addr < r.start + r.length

\* index in cpu->mem of the region that serves addr, 0 when there is none
mem_find(c, addr) ==
    LET hits == {k \in 1..Len(c.mem) : Covers(c.mem[k], addr)}
    IN  IF hits = {} THEN 0 ELSE CHOOSE k \in hits : \A j \in hits : k <= j

Mapped(c, addr) == mem_find(c, addr) # 0

mem_get_byte(c, h, addr) ==
    LET r == c.mem[mem_find(c, addr)]
    IN  BufGet(h[r.obj], addr - r.start)

\* little-endian, the second byte at addr + 1 in 16 bits
mem_get_word(c, h, addr) ==
    mem_get_byte(c, h, addr) + 256 * mem_get_byte(c, h, U16(addr + 1))

MappedWord(c, addr) == Mapped(c, addr) /\ Mapped(c, U16(addr + 1))

\* a region without a write handler (ROM) ignores the write
mem_set_byte(c, h, addr, b) ==
    LET r == c.mem[mem_find(c, addr)]
    IN  IF r.write_handler = NO_HANDLER
        THEN h
        ELSE [h EXCEPT ![r.obj] = BufSet(@, addr - r.start, b)]

\* the fast path (mem.h): cpu->memory[addr]
mem_get_byte_direct(c, h, addr) == BufGet(h[c.memory], addr)

mem_set_byte_direct(c, h, addr, b) ==
    [h EXCEPT ![c.memory] = BufSet(@, addr, b)]

-----------------------------------------------------------------------------
(* Stack management.  Each operator takes the machine m = [c, h] (the cpu  *)
(* and the buffers) and yields the machine after the call.                 *)

cpu_push_byte(m, b) ==
    [c |-> [m.c EXCEPT !.sp = U8(m.c.sp - 1)],
     h |-> mem_set_byte_direct(m.c, m.h, STACK_PAGE + m.c.sp, b)]

\* mutant: the low byte pushed first
cpu_push_word_low_first(m, w) ==
    cpu_push_byte(cpu_push_byte(m, U8(w)), U8(w \div 256))

cpu_push_word(m, w) ==
    cpu_push_byte(cpu_push_byte(m, U8(w \div 256)), U8(w))

\* mutant: sp incremented without the wrap to 8 bits
cpu_pull_byte_no_wrap(m) ==
    LET c1 == [m.c EXCEPT !.sp = m.c.sp + 1]
    IN  [c |-> c1, h |-> m.h,
         val |-> mem_get_byte_direct(c1, m.h, STACK_PAGE + c1.sp)]

cpu_pull_byte(m) ==
    LET c1 == [m.c EXCEPT !.sp = U8(m.c.sp + 1)]
    IN  [c |-> c1, h |-> m.h,
         val |-> mem_get_byte_direct(c1, m.h, STACK_PAGE + c1.sp)]

\* The two operands of | are calls with a side effect on sp and C leaves
\* their order to the compiler: "lr" evaluates the left call first (it then
\* yields the low byte), "rl" the right call first.
EvalOrders == {"lr", "rl"}

cpu_pull_word(m, ord) ==
    LET p1 == cpu_pull_byte(m)
        p2 == cpu_pull_byte([c |-> p1.c, h |-> p1.h])
    IN  [c |-> p2.c, h |-> p2.h,
         val |-> IF ord = "lr" THEN BitOr(p1.val, Shl(p2.val, 8))
                               ELSE BitOr(p2.val, Shl(p1.val, 8))]

cpu_stack_free(c) == c.sp

\* mutant: the free space taken for the used space
cpu_stack_used_is_free(c) == c.sp

cpu_stack_used(c) == 255 - c.sp

-----------------------------------------------------------------------------
(* The packed status byte *)

cpu_get_status(c) ==
    BitOr(48,                               \* 0x30
    BitOr(Shl(NonZero(c.n), 7),
    BitOr(Shl(NonZero(c.v), 6),
    BitOr(Shl(NonZero(c.b), 4),
    BitOr(Shl(NonZero(c.d), 3),
    BitOr(Shl(NonZero(c.i), 2),
    BitOr(Shl(NonZero(c.z), 1),
          Shl(NonZero(c.c), 0))))))))

cpu_set_status(c, status) ==
    [c EXCEPT !.n = AndMask(status, 7),
              !.v = AndMask(status, 6),
              !.b = AndMask(status, 4),
              !.d = AndMask(status, 3),
              !.i = AndMask(status, 2),
              !.z = AndMask(status, 1),
              !.c = AndMask(status, 0)]

-----------------------------------------------------------------------------
(* Region registration *)

\* mutant: the region appended to the list
cpu_add_mem_appends(c, mem) ==
    LET c1 == [c EXCEPT !.mem = c.mem \o <<mem>>]
    IN  IF mem.type = "MEM_TYPE_RAM" /\ mem.start = 0 /\ mem.length >= 512
        THEN [c1 EXCEPT !.memory = mem.obj]
        ELSE c1

cpu_add_mem(c, mem) ==
    LET c1 == IF c.mem = <<>>
              THEN [c EXCEPT !.mem = <<mem>>]
              ELSE [c EXCEPT !.mem = <<mem>> \o c.mem]
    IN  IF mem.type = "MEM_TYPE_RAM" /\ mem.start = 0 /\ mem.length >= 512
        THEN [c1 EXCEPT !.memory = mem.obj]
        ELSE c1

\* a buffer joins the heap; the region's obj is its index
NewObj(h) == Len(h) + 1

cpu_add_ram(m, start, length, garbage) ==
    LET mem == [type |-> "MEM_TYPE_RAM", obj |-> NewObj(m.h),
                start |-> start, length |-> length,
                read_handler |-> "_ram_read", write_handler |-> "_ram_write"]
    IN  [c |-> cpu_add_mem(m.c, mem),
         h |-> Append(m.h, [image |-> "none", fill |-> garbage, cells |-> <<>>])]

cpu_add_rom_data(m, start, length, data) ==
    LET mem == [type |-> "MEM_TYPE_ROM", obj |-> NewObj(m.h),
                start |-> start, length |-> length,
                read_handler |-> "_rom_read", write_handler |-> NO_HANDLER]
    IN  [c |-> cpu_add_mem(m.c, mem),
         h |-> Append(m.h, [image |-> data, fill |-> 0, cells |-> <<>>])]

\* mutant: the file registered whatever its size
cpu_add_rom_file_any_size(m, start, f) ==
    IF ~f.open THEN m
    ELSE IF ~f.stat THEN m
    ELSE IF f.read # f.size THEN m
    ELSE cpu_add_rom_data(m, start, U16(f.size), f.image)

\* f is what the calls on the path come to: whether open and fstat
\* succeed, the st_size fstat reports, what read returns, and the bytes of
\* the file.  The block malloc'ed before a failed read is never freed and
\* never referenced again; st_size is passed for a uint16_t length.
cpu_add_rom_file(m, start, f) ==
    IF ~f.open THEN m
    ELSE IF ~f.stat THEN m
    ELSE IF f.size > 64 * 1024 - start THEN m
    ELSE IF f.read # f.size THEN m
    ELSE cpu_add_rom_data(m, start, U16(f.size), f.image)

\* the caller's device is a latch: it reads back what was written to it
cpu_add_iom(m, start, length) ==
    LET mem == [type |-> "MEM_TYPE_IOM", obj |-> NewObj(m.h),
                start |-> start, length |-> length,
                read_handler |-> "io_read", write_handler |-> "io_write"]
    IN  [c |-> cpu_add_mem(m.c, mem),
         h |-> Append(m.h, [image |-> "none", fill |-> 0, cells |-> <<>>])]

cpu_strict(c, strict) == [c EXCEPT !.strict = TRUE]

cpu_trace(c, trace) == [c EXCEPT !.trace = trace]

-----------------------------------------------------------------------------
(* The opcode table (ins.c): the descriptors of the opcodes the images     *)
(* use.  0x03 stands for a descriptor that declares stack headroom but has *)
(* no handler.                                                             *)

instructions(opcode) ==
    CASE opcode = 234 -> [name |-> "NOP", bytes |-> 1, stack |-> 0,  handler |-> "nop"]
      [] opcode = 169 -> [name |-> "LDA", bytes |-> 2, stack |-> 0,  handler |-> "lda"]
      [] opcode = 76  -> [name |-> "JMP", bytes |-> 3, stack |-> 0,  handler |-> "jmp"]
      [] opcode = 72  -> [name |-> "PHA", bytes |-> 1, stack |-> 1,  handler |-> "pha"]
      [] opcode = 104 -> [name |-> "PLA", bytes |-> 1, stack |-> -1, handler |-> "pla"]
      [] opcode = 32  -> [name |-> "JSR", bytes |-> 3, stack |-> 2,  handler |-> "jsr"]
      [] opcode = 96  -> [name |-> "RTS", bytes |-> 1, stack |-> -2, handler |-> "rts"]
      [] opcode = 0   -> [name |-> "BRK", bytes |-> 1, stack |-> 3,  handler |-> "brk"]
      [] opcode = 3   -> [name |-> "???", bytes |-> 1, stack |-> 3,  handler |-> NO_HANDLER]
      [] OTHER        -> [name |-> "???", bytes |-> 1, stack |-> 0,  handler |-> NO_HANDLER]

\* what the handlers do (ins.c); oper is the operand the dispatcher passes
Handler(name, m, oper, ord) ==
    CASE name = "nop" -> m
      [] name = "lda" ->
           [m EXCEPT !.c.a = oper, !.c.z = NonZero(1 - NonZero(oper)),
                     !.c.n = AndMask(oper, 7)]
      [] name = "jmp" -> [m EXCEPT !.c.pc = oper]
      [] name = "pha" -> cpu_push_byte(m, m.c.a)
      [] name = "pla" ->
           LET p == cpu_pull_byte(m)
           IN  [c |-> [p.c EXCEPT !.a = p.val, !.z = NonZero(1 - NonZero(p.val)),
                                  !.n = AndMask(p.val, 7)],
                h |-> p.h]
      [] name = "jsr" ->
           LET p == cpu_push_word(m, U16(m.c.pc - 1))
           IN  [p EXCEPT !.c.pc = oper]
      [] name = "rts" ->
           LET p == cpu_pull_word(m, ord)
           IN  [c |-> [p.c EXCEPT !.pc = U16(p.val + 1)], h |-> p.h]
      [] name = "brk" ->
           LET p == cpu_push_byte(cpu_push_word([m EXCEPT !.c.b = 1], U16(m.c.pc + 1)),
                                  cpu_get_status([m.c EXCEPT !.b = 1]))
           IN  [p EXCEPT !.c.i = 1]

UsesStack(name) == name \in {"pha", "pla", "jsr", "rts", "brk"}

-----------------------------------------------------------------------------
(* The dispatcher *)

\* cpu_format_instruction renders the instruction at pc into a local
\* buffer; what it does to the machine is to read these addresses through
\* the bus (the opcode, and the operand bytes its bit pattern selects)
cpu_format_instruction_reads(m) ==
    LET pc     == m.c.pc
        opcode == mem_get_byte(m.c, m.h, pc)
        i      == instructions(opcode)
        sub    == (opcode % 32) \div 4          \* (opcode & 0b00011100) >> 2
        one    == {U16(pc + 1)}
        two    == {U16(pc + 1), U16(pc + 2)}
    IN  {pc} \cup
        (CASE i.bytes = 1 -> {}
           [] i.bytes # 1 /\ opcode = 32 -> two
           [] i.bytes # 1 /\ opcode # 32 /\ opcode % 32 = 16 -> one
           [] i.bytes # 1 /\ opcode # 32 /\ opcode % 32 # 16 /\ opcode % 4 = 1 ->
                IF sub \in {3, 6, 7} THEN two ELSE one
           [] i.bytes # 1 /\ opcode # 32 /\ opcode % 32 # 16 /\ opcode % 4 = 2 ->
                IF sub \in {0, 1, 5} THEN one
                ELSE IF sub \in {3, 7} THEN two ELSE {}
           [] i.bytes # 1 /\ opcode # 32 /\ opcode % 32 # 16 /\ opcode % 4 = 0 ->
                IF sub \in {0, 1, 5} THEN one
                ELSE IF sub \in {3, 7} THEN two ELSE {}
           [] OTHER -> {})

\* char trace_stack[256]
TRACE_BUFFER == 256

HexDigit(d) == <<"0", "1", "2", "3", "4", "5", "6", "7",
                 "8", "9", "A", "B", "C", "D", "E", "F">>[d + 1]

\* cpu_format_stack: the string it builds, " %.2X" for every byte of the
\* stack page from sp up to 0xFF excluded, character by character
cpu_format_stack(c, h) ==
    [k \in 1..(3 * (255 - c.sp)) |->
        LET b == mem_get_byte_direct(c, h, STACK_PAGE + c.sp + ((k - 1) \div 3))
        IN  CASE k % 3 = 1 -> " "
              [] k % 3 = 2 -> HexDigit(b \div 16)
              [] k % 3 = 0 -> HexDigit(b % 16)]

\* the string and its terminator do not fit the buffer they are built in
TraceOverrun(c, h) == Len(cpu_format_stack(c, h)) + 1 > TRACE_BUFFER

\* A write past the end of trace_stack is undefined: what follows the
\* buffer in the frame is the compiler's choice.  Either nothing that the
\* execution depends on is hit, or the process dies in the call.
Overruns == {"harmless", "fatal"}

\* mutant: the guard applied whether strict mode is on or not
StackGuard_unconditional(c, i) ==
    IF i.stack # 0
    THEN IF i.stack > 0
         THEN IF cpu_stack_free(c) < i.stack THEN EWM_CPU_ERR_STACK_OVERFLOW ELSE 0
         ELSE IF cpu_stack_used(c) < -(i.stack) THEN EWM_CPU_ERR_STACK_UNDERFLOW ELSE 0
    ELSE 0

StackGuard(c, i) ==
    IF c.strict /\ i.stack # 0
    THEN IF i.stack > 0
         THEN IF cpu_stack_free(c) < i.stack THEN EWM_CPU_ERR_STACK_OVERFLOW ELSE 0
         ELSE IF cpu_stack_used(c) < -(i.stack) THEN EWM_CPU_ERR_STACK_UNDERFLOW ELSE 0
    ELSE 0

Fetch(m) == instructions(mem_get_byte(m.c, m.h, m.c.pc))

\* mutant: the operand read after the advanced pc
Operand_after_advance(m, i, pc) ==
    CASE i.bytes = 1 -> 0
      [] i.bytes = 2 -> mem_get_byte(m.c, m.h, U16(m.c.pc + 1))
      [] i.bytes = 3 -> mem_get_word(m.c, m.h, U16(m.c.pc + 1))

\* the operand, read at pc + 1 (pc the address of the opcode)
Operand(m, i, pc) ==
    CASE i.bytes = 1 -> 0
      [] i.bytes = 2 -> mem_get_byte(m.c, m.h, U16(pc + 1))
      [] i.bytes = 3 -> mem_get_word(m.c, m.h, U16(pc + 1))

\* mutant: the stack guard ahead of the handler check
cpu_execute_instruction_guard_first(m, ord, ub) ==
    LET i == Fetch(m)
    IN  IF StackGuard(m.c, i) # 0
        THEN [c |-> m.c, h |-> m.h, ret |-> StackGuard(m.c, i)]
        ELSE IF i.handler = NO_HANDLER
        THEN [c |-> m.c, h |-> m.h, ret |-> EWM_CPU_ERR_UNIMPLEMENTED_INSTRUCTION]
        ELSE LET pc  == m.c.pc
                 m1  == [m EXCEPT !.c.pc = U16(pc + i.bytes)]
                 m2  == Handler(i.handler, m1, Operand(m1, i, pc), ord)
             IN  IF m2.c.trace # 0 /\ TraceOverrun(m2.c, m2.h) /\ ub = "fatal"
                 THEN [c |-> m2.c, h |-> m2.h, ret |-> CRASHED]
                 ELSE [c |-> m2.c, h |-> m2.h, ret |-> 0]

\* ord is the order in which the build evaluates the operands of | in
\* _cpu_pull_word, ub what an overrun of trace_stack comes to.  After the
\* handler the tracer formats the state and the stack and prints the line;
\* of that only the overrun can reach the machine.
cpu_execute_instruction(m, ord, ub) ==
    LET i == Fetch(m)
    IN  IF i.handler = NO_HANDLER
        THEN [c |-> m.c, h |-> m.h, ret |-> EWM_CPU_ERR_UNIMPLEMENTED_INSTRUCTION]
        ELSE IF StackGuard(m.c, i) # 0
        THEN [c |-> m.c, h |-> m.h, ret |-> StackGuard(m.c, i)]
        ELSE LET pc  == m.c.pc
                 m1  == [m EXCEPT !.c.pc = U16(pc + i.bytes)]
                 m2  == Handler(i.handler, m1, Operand(m1, i, pc), ord)
             IN  IF m2.c.trace # 0 /\ TraceOverrun(m2.c, m2.h) /\ ub = "fatal"
                 THEN [c |-> m2.c, h |-> m2.h, ret |-> CRASHED]
                 ELSE [c |-> m2.c, h |-> m2.h, ret |-> 0]

\* every address the call reads through the bus is covered, and the cached
\* buffer exists when the handler uses the stack or the tracer lists it
StepDefined(m) ==
    /\ Mapped(m.c, m.c.pc)
    /\ m.c.trace # 0 => \A addr \in cpu_format_instruction_reads(m) : Mapped(m.c, addr)
    /\ LET i == Fetch(m)
       IN  (i.handler # NO_HANDLER /\ StackGuard(m.c, i) = 0) =>
             /\ i.bytes >= 2 => Mapped(m.c, U16(m.c.pc + 1))
             /\ i.bytes = 3 => Mapped(m.c, U16(m.c.pc + 2))
             /\ UsesStack(i.handler) => m.c.memory # NULL
             /\ (m.c.trace # 0 /\ m.c.sp # 255) => m.c.memory # NULL

-----------------------------------------------------------------------------
(* Reset and interrupts *)

\* mutant: a reset that clears I with the other flags
cpu_reset_clears_i(m) ==
    [m EXCEPT !.c.pc = mem_get_word(m.c, m.h, EWM_VECTOR_RES),
              !.c.a = 0, !.c.x = 0, !.c.y = 0,
              !.c.n = 0, !.c.v = 0, !.c.b = 0, !.c.d = 0,
              !.c.i = 0, !.c.z = 0, !.c.c = 0,
              !.c.sp = 255]

cpu_reset(m) ==
    [m EXCEPT !.c.pc = mem_get_word(m.c, m.h, EWM_VECTOR_RES),
              !.c.a = 0, !.c.x = 0, !.c.y = 0,
              !.c.n = 0, !.c.v = 0, !.c.b = 0, !.c.d = 0,
              !.c.i = 1, !.c.z = 0, !.c.c = 0,
              !.c.sp = 255]

\* mutant: an irq that asks for one byte of headroom too many
cpu_irq_four_bytes(m) ==
    IF m.c.strict /\ cpu_stack_free(m.c) < 4
    THEN [c |-> m.c, h |-> m.h, ret |-> EWM_CPU_ERR_STACK_OVERFLOW]
    ELSE LET m1 == cpu_push_word(m, m.c.pc)
             m2 == cpu_push_byte(m1, cpu_get_status(m1.c))
             m3 == [m2 EXCEPT !.c.i = 1]
         IN  [c |-> [m3.c EXCEPT !.pc = mem_get_word(m3.c, m3.h, EWM_VECTOR_IRQ)],
              h |-> m3.h, ret |-> 0]

cpu_irq(m) ==
    IF m.c.strict /\ cpu_stack_free(m.c) < 3
    THEN [c |-> m.c, h |-> m.h, ret |-> EWM_CPU_ERR_STACK_OVERFLOW]
    ELSE LET m1 == cpu_push_word(m, m.c.pc)
             m2 == cpu_push_byte(m1, cpu_get_status(m1.c))
             m3 == [m2 EXCEPT !.c.i = 1]
         IN  [c |-> [m3.c EXCEPT !.pc = mem_get_word(m3.c, m3.h, EWM_VECTOR_IRQ)],
              h |-> m3.h, ret |-> 0]

cpu_nmi(m) ==
    IF m.c.strict /\ cpu_stack_free(m.c) < 3
    THEN [c |-> m.c, h |-> m.h, ret |-> EWM_CPU_ERR_STACK_OVERFLOW]
    ELSE LET m1 == cpu_push_word(m, m.c.pc)
             m2 == cpu_push_byte(m1, cpu_get_status(m1.c))
             m3 == [m2 EXCEPT !.c.i = 1]
         IN  [c |-> [m3.c EXCEPT !.pc = mem_get_word(m3.c, m3.h, EWM_VECTOR_NMI)],
              h |-> m3.h, ret |-> 0]

\* the call returns before it touches memory, or the cached buffer exists
\* and the vector is covered
InterruptDefined(m, vector) ==
    (m.c.strict /\ cpu_stack_free(m.c) < 3)
    \/ (m.c.memory # NULL /\ MappedWord(m.c, vector))

-----------------------------------------------------------------------------
(* The calls of the host *)

\* what the host passes to the registration calls
RamConfigs == {<<0, 512>>, <<0, 256>>}
RomConfigs == {<<65280, 256, "boot">>, <<448, 64, "patch">>}
IoConfigs  == {<<0, 16>>}

\* what the host writes through the bus, and where
WriteAddrs == {0, 511, 65532}
WriteVals  == {0, 66}

M == [c |-> cpu, h |-> heap]

\* the host can make a call: no cpu_run is under way and the process lives
Idle == ~loop.on /\ call.ret # CRASHED

Returned(op, arg, ret) == call' = [op |-> op, arg |-> arg, ret |-> ret]

Registered(m, op, arg) ==
    /\ cpu' = m.c
    /\ heap' = m.h
    /\ hist' = Append(hist, Head(m.c.mem))
    /\ Returned(op, arg, 0)
    /\ UNCHANGED <<loop, used>>

AddRam ==
    /\ Idle
    /\ Len(hist) < MaxRegions
    /\ \E cfg \in RamConfigs, g \in Garbage :
         Registered(cpu_add_ram(M, cfg[1], cfg[2], g), "cpu_add_ram", cfg)

AddRomData ==
    /\ Idle
    /\ Len(hist) < MaxRegions
    /\ \E cfg \in RomConfigs :
         Registered(cpu_add_rom_data(M, cfg[1], cfg[2], cfg[3]), "cpu_add_rom_data", cfg)

\* the files the host names: one that cannot be opened, one that cannot be
\* stat'ed, one whose read comes back short and one whose read fails, and
\* images that fit or are too large by one byte at one of the addresses
File(open, stat, size, read, image) ==
    [open |-> open, stat |-> stat, size |-> size, read |-> read, image |-> image]

RomFiles ==
    {File(FALSE, FALSE, 0, 0, "none"),
     File(TRUE, FALSE, 0, 0, "none"),
     File(TRUE, TRUE, 256, 128, "boot"),
     File(TRUE, TRUE, 256, 0 - 1, "boot"),
     File(TRUE, TRUE, 256, 256, "boot"),
     File(TRUE, TRUE, 257, 257, "boot"),
     File(TRUE, TRUE, 65536, 65536, "boot"),
     File(TRUE, TRUE, 65537, 65537, "boot")}

FileStarts == {0, 65280}

AddRomFile ==
    /\ Idle
    /\ Len(hist) < MaxRegions
    /\ \E start \in FileStarts, f \in RomFiles :
         LET m == cpu_add_rom_file(M, start, f)
         IN  /\ cpu' = m.c
             /\ heap' = m.h
             /\ hist' = IF m.c.mem # cpu.mem THEN Append(hist, Head(m.c.mem)) ELSE hist
             /\ Returned("cpu_add_rom_file", <<start, f>>, 0)
    /\ UNCHANGED <<loop, used>>

AddIom ==
    /\ Idle
    /\ Len(hist) < MaxRegions
    /\ \E cfg \in IoConfigs :
         Registered(cpu_add_iom(M, cfg[1], cfg[2]), "cpu_add_iom", cfg)

Strict ==
    /\ Idle
    /\ \E b \in BOOLEAN :
         /\ cpu' = cpu_strict(cpu, b)
         /\ Returned("cpu_strict", b, 0)
    /\ UNCHANGED <<heap, hist, loop, used>>

Trace ==
    /\ Idle
    /\ \E t \in {0, 1} :
         /\ cpu' = cpu_trace(cpu, t)
         /\ Returned("cpu_trace", t, 0)
    /\ UNCHANGED <<heap, hist, loop, used>>

\* a call that yields the machine r.c, r.h and returns r.ret; the ghost
\* keeps the machine the call (in cpu_run: its last instruction) started from
Called(r, op, arg) ==
    /\ cpu' = r.c
    /\ heap' = r.h
    /\ Returned(op, arg, r.ret)
    /\ used' = [used EXCEPT !.calls = @ + 1]
    /\ UNCHANGED <<hist, loop>>

Reset ==
    /\ Idle
    /\ used.calls < MaxCalls
    /\ MappedWord(cpu, EWM_VECTOR_RES)
    /\ LET m == cpu_reset(M)
       IN  Called([c |-> m.c, h |-> m.h, ret |-> 0], "cpu_reset", M)

Irq ==
    /\ Idle
    /\ used.calls < MaxCalls
    /\ InterruptDefined(M, EWM_VECTOR_IRQ)
    /\ Called(cpu_irq(M), "cpu_irq", M)

Nmi ==
    /\ Idle
    /\ used.calls < MaxCalls
    /\ InterruptDefined(M, EWM_VECTOR_NMI)
    /\ Called(cpu_nmi(M), "cpu_nmi", M)

Step ==
    /\ Idle
    /\ used.calls < MaxCalls
    /\ StepDefined(M)
    /\ \E ord \in EvalOrders, ub \in Overruns :
         Called(cpu_execute_instruction(M, ord, ub), "cpu_step", M)

\* cpu_run: the loop starts with instruction_count = 0 ...
Run ==
    /\ Idle
    /\ used.calls < MaxCalls
    /\ loop' = [on |-> TRUE, count |-> 0]
    /\ Returned("cpu_run", M, PENDING)
    /\ used' = [used EXCEPT !.calls = @ + 1]
    /\ UNCHANGED <<cpu, heap, hist>>

\* ... cpu_boot resets first ...
Boot ==
    /\ Idle
    /\ used.calls < MaxCalls
    /\ MappedWord(cpu, EWM_VECTOR_RES)
    /\ LET m == cpu_reset(M)
       IN  cpu' = m.c /\ heap' = m.h
    /\ loop' = [on |-> TRUE, count |-> 0]
    /\ Returned("cpu_boot", M, PENDING)
    /\ used' = [used EXCEPT !.calls = @ + 1]
    /\ UNCHANGED hist

\* mutant: the failing instruction counted with the others
RunStep_counts_failure ==
    /\ loop.on
    /\ loop.count < MaxCount
    /\ StepDefined(M)
    /\ \E ord \in EvalOrders, ub \in Overruns :
         LET r == cpu_execute_instruction(M, ord, ub)
         IN  /\ cpu' = r.c
             /\ heap' = r.h
             /\ IF r.ret = 0
                THEN /\ loop' = [loop EXCEPT !.count = @ + 1]
                     /\ call' = [call EXCEPT !.arg = M]
                ELSE /\ loop' = [on |-> FALSE, count |-> loop.count + 1]
                     /\ call' = [call EXCEPT !.arg = M, !.ret = r.ret]
    /\ UNCHANGED <<hist, used>>

\* ... and each turn executes one instruction: it counts it and goes on,
\* or leaves the loop and returns the error (or dies in the instruction)
RunStep ==
    /\ loop.on
    /\ loop.count < MaxCount
    /\ StepDefined(M)
    /\ \E ord \in EvalOrders, ub \in Overruns :
         LET r == cpu_execute_instruction(M, ord, ub)
         IN  /\ cpu' = r.c
             /\ heap' = r.h
             /\ IF r.ret = 0
                THEN /\ loop' = [loop EXCEPT !.count = @ + 1]
                     /\ call' = [call EXCEPT !.arg = M]
                ELSE /\ loop' = [loop EXCEPT !.on = FALSE]
                     /\ call' = [call EXCEPT !.arg = M, !.ret = r.ret]
    /\ UNCHANGED <<hist, used>>

\* the host stores a byte through the bus
BusWrite ==
    /\ Idle
    /\ used.writes < MaxWrites
    /\ \E addr \in WriteAddrs, b \in WriteVals :
         /\ Mapped(cpu, addr)
         /\ heap' = mem_set_byte(cpu, heap, addr, b)
         /\ Returned("mem_set_byte", <<addr, b>>, 0)
    /\ used' = [used EXCEPT !.writes = @ + 1]
    /\ UNCHANGED <<cpu, hist, loop>>

-----------------------------------------------------------------------------
(* The machine from its construction on *)

\* cpu_init: memset(cpu, 0x00, sizeof(struct cpu_t))
cpu_init ==
    [a |-> 0, x |-> 0, y |-> 0, sp |-> 0, pc |-> 0,
     n |-> 0, v |-> 0, b |-> 0, d |-> 0, i |-> 0, z |-> 0, c |-> 0,
     strict |-> FALSE, trace |-> 0, mem |-> <<>>, memory |-> NULL]

NoCall == [op |-> "cpu_init", arg |-> 0, ret |-> 0]

Init ==
    /\ cpu = cpu_init
    /\ heap = <<>>
    /\ hist = <<>>
    /\ call = NoCall
    /\ loop = [on |-> FALSE, count |-> 0]
    /\ used = [calls |-> 0, writes |-> 0]

Next ==
    \/ AddRam \/ AddRomData \/ AddRomFile \/ AddIom
    \/ Strict \/ Trace
    \/ Reset \/ Irq \/ Nmi \/ Step
    \/ Run \/ Boot \/ RunStep
    \/ BusWrite

Spec == Init /\ [][Next]_vars

-----------------------------------------------------------------------------
(* The calls on a machine in use: RAM over the zero page and the stack     *)
(* page, the boot image over the vectors, and the registers wherever the   *)
(* program has brought them.                                               *)

SpVals   == {0, 1, 2, 3, 4, 253, 254, 255}
PcVals   == {65280, 65282, 65283, 65286, 65296, 65312, 65328, 65344, 65360, 1024}
FlagVals == {[n |-> 0,   v |-> 0, b |-> 0, d |-> 0, i |-> 0, z |-> 0, c |-> 0],
             [n |-> 0,   v |-> 0, b |-> 0, d |-> 0, i |-> 0, z |-> 0, c |-> 1],
             [n |-> 128, v |-> 1, b |-> 1, d |-> 1, i |-> 1, z |-> 1, c |-> 1]}

Machine ==
    cpu_add_rom_data(cpu_add_ram([c |-> cpu_init, h |-> <<>>], 0, 512, 165),
                     65280, 256, "boot")

InitCpu ==
    /\ \E sp \in SpVals, pc \in PcVals, f \in FlagVals, st \in BOOLEAN, tr \in {0, 1} :
         cpu = [Machine.c EXCEPT !.sp = sp, !.pc = pc, !.a = 17, !.x = 34, !.y = 51,
                                 !.n = f.n, !.v = f.v, !.b = f.b, !.d = f.d,
                                 !.i = f.i, !.z = f.z, !.c = f.c,
                                 !.strict = st, !.trace = tr]
    /\ heap = Machine.h
    /\ hist = <<Machine.c.mem[2], Machine.c.mem[1]>>
    /\ call = NoCall
    /\ loop = [on |-> FALSE, count |-> 0]
    /\ used = [calls |-> 0, writes |-> 0]

NextCpu ==
    \/ Reset \/ Irq \/ Nmi \/ Step
    \/ Run \/ Boot \/ RunStep

SpecCpu == InitCpu /\ [][NextCpu]_vars

-----------------------------------------------------------------------------
(* What the last call started from *)

\* the machine before the call (before its last instruction, in cpu_run)
Pre == call.arg

\* the last call executed an instruction, from Pre
Executed ==
    \/ call.op = "cpu_step"
    \/ call.op \in {"cpu_run", "cpu_boot"} /\ (call.ret # PENDING \/ loop.count > 0)

\* the flags as truth values
Truth(c) == <<c.n # 0, c.v # 0, c.b # 0, c.d # 0, c.i # 0, c.z # 0, c.c # 0>>

\* the byte the stack page holds at offset s, in the cached buffer
StackAt(s) == mem_get_byte_direct(cpu, heap, STACK_PAGE + s)

-----------------------------------------------------------------------------
(* C6: after cpu_reset, from whatever state, PC is the little-endian word  *)
(* at the reset vector, SP = 0xFF, A = X = Y = 0, I is set and N, V, B, D, *)
(* Z, C are clear.                                                         *)
C6_Reset ==
    call.op = "cpu_reset" =>
        /\ cpu.pc = mem_get_byte(cpu, heap, EWM_VECTOR_RES)
                    + 256 * mem_get_byte(cpu, heap, EWM_VECTOR_RES + 1)
        /\ cpu.sp = 255
        /\ cpu.a = 0 /\ cpu.x = 0 /\ cpu.y = 0
        /\ Truth(cpu) = <<FALSE, FALSE, FALSE, FALSE, TRUE, FALSE, FALSE>>

\* a reset of a machine whose registers and flags were all set
C6_Witness ==
    /\ call.op = "cpu_reset"
    /\ cpu.pc = 65280
    /\ Pre.c.a = 17 /\ Pre.c.sp = 2 /\ Pre.c.pc = 1024
    /\ Truth(Pre.c) = <<TRUE, TRUE, TRUE, TRUE, TRUE, TRUE, TRUE>>

(* C7: an irq (nmi) that returns 0 from PC = p, SP = s, flags f leaves the *)
(* high byte of p at 0x0100+s, the low byte at 0x0100+(s-1) mod 256, the   *)
(* status byte packed from f at 0x0100+(s-2) mod 256, SP = (s-3) mod 256,  *)
(* I set, PC the word at the IRQ (NMI) vector, and A, X, Y and the other   *)
(* flags as they were.                                                     *)
C7_Interrupt ==
    (call.op \in {"cpu_irq", "cpu_nmi"} /\ call.ret = 0) =>
        LET p == Pre.c.pc
            s == Pre.c.sp
            vector == IF call.op = "cpu_irq" THEN EWM_VECTOR_IRQ ELSE EWM_VECTOR_NMI
        IN  /\ StackAt(s) = p \div 256
            /\ StackAt((s + 255) % 256) = p % 256
            /\ StackAt((s + 254) % 256) = cpu_get_status(Pre.c)
            /\ cpu.sp = (s + 253) % 256
            /\ cpu.i # 0
            /\ cpu.pc = mem_get_byte(cpu, heap, vector)
                        + 256 * mem_get_byte(cpu, heap, vector + 1)
            /\ cpu.a = Pre.c.a /\ cpu.x = Pre.c.x /\ cpu.y = Pre.c.y
            /\ \A k \in {1, 2, 3, 4, 6, 7} : Truth(cpu)[k] = Truth(Pre.c)[k]

\* the spec's scenario, with SP wrapping: an irq at PC = 0x0400, C set,
\* Z and I clear, SP = 1
C7_Witness ==
    /\ call.op = "cpu_irq" /\ call.ret = 0
    /\ Pre.c.pc = 1024 /\ Pre.c.sp = 1
    /\ Pre.c.c # 0 /\ Pre.c.z = 0 /\ Pre.c.i = 0
    /\ cpu.sp = 254 /\ cpu.pc = 65296
    /\ StackAt(1) = 4 /\ StackAt(0) = 0 /\ StackAt(255) = cpu_get_status(Pre.c)

(* C8: in strict mode an irq or nmi with SP < 3 returns StackOverflow and  *)
(* leaves the cpu and all memory as they were; with SP >= 3 it does not    *)
(* fail.                                                                   *)
C8_StrictInterrupt ==
    (call.op \in {"cpu_irq", "cpu_nmi"} /\ Pre.c.strict) =>
        IF Pre.c.sp < 3
        THEN /\ call.ret = EWM_CPU_ERR_STACK_OVERFLOW
             /\ cpu = Pre.c
             /\ heap = Pre.h
        ELSE call.ret = 0

\* a refused nmi at SP = 2, the largest SP that is refused
C8_Witness ==
    /\ call.op = "cpu_nmi" /\ Pre.c.strict /\ Pre.c.sp = 2
    /\ call.ret = EWM_CPU_ERR_STACK_OVERFLOW

(* C9: in strict mode a step whose descriptor (one with a handler) declares *)
(* headroom k > 0 returns StackOverflow when SP < k, one that declares -k   *)
(* returns StackUnderflow when 0xFF - SP < k, and both leave the cpu and    *)
(* memory as they were; with enough headroom, or with 0 declared, the step  *)
(* returns neither error.                                                   *)
C9_StrictStep ==
    (call.op = "cpu_step" /\ Pre.c.strict /\ Fetch(Pre).handler # NO_HANDLER) =>
        LET k == Fetch(Pre).stack
        IN  CASE k > 0 /\ Pre.c.sp < k ->
                   /\ call.ret = EWM_CPU_ERR_STACK_OVERFLOW
                   /\ cpu = Pre.c /\ heap = Pre.h
              [] k < 0 /\ 255 - Pre.c.sp < -k ->
                   /\ call.ret = EWM_CPU_ERR_STACK_UNDERFLOW
                   /\ cpu = Pre.c /\ heap = Pre.h
              [] OTHER ->
                   call.ret \notin {EWM_CPU_ERR_STACK_OVERFLOW, EWM_CPU_ERR_STACK_UNDERFLOW}

\* the spec's scenario: SP = 0x02 and a descriptor that needs 3 bytes
C9_Witness ==
    /\ call.op = "cpu_step" /\ Pre.c.strict
    /\ Pre.c.sp = 2 /\ Fetch(Pre).stack = 3 /\ Fetch(Pre).handler # NO_HANDLER
    /\ call.ret = EWM_CPU_ERR_STACK_OVERFLOW
    /\ cpu.pc = Pre.c.pc /\ cpu.sp = 2

(* C10: a step, alone or in cpu_run, that fetches an opcode whose           *)
(* descriptor has no handler returns UnimplementedInstruction and leaves    *)
(* the cpu and memory as they were, strict or not, traced or not, and       *)
(* whatever headroom the descriptor declares.                               *)
C10_Unimplemented ==
    (Executed /\ Fetch(Pre).handler = NO_HANDLER) =>
        /\ call.ret = EWM_CPU_ERR_UNIMPLEMENTED_INSTRUCTION
        /\ cpu = Pre.c
        /\ heap = Pre.h

\* in strict mode and traced, with SP = 2 and a descriptor without handler
\* that declares 3 bytes of headroom
C10_Witness ==
    /\ call.op = "cpu_step"
    /\ Fetch(Pre).handler = NO_HANDLER /\ Fetch(Pre).stack = 3
    /\ Pre.c.strict /\ Pre.c.trace # 0 /\ Pre.c.sp = 2
    /\ call.ret = EWM_CPU_ERR_UNIMPLEMENTED_INSTRUCTION

-----------------------------------------------------------------------------
(* The stack primitives on their own: any SP, a push or a pull at a time   *)

MaxStackOps == 2    \* pushes and pulls in one behaviour

StackBytes == {0, 1, 127, 128, 255}
StackWords == {0, 1, 255, 256, 4660, 65535}

InitStack ==
    /\ \E sp \in 0..255 : cpu = [Machine.c EXCEPT !.sp = sp]
    /\ heap = Machine.h
    /\ hist = <<Machine.c.mem[2], Machine.c.mem[1]>>
    /\ call = NoCall
    /\ loop = [on |-> FALSE, count |-> 0]
    /\ used = [calls |-> 0, writes |-> 0]

\* the ghost of a push: the value pushed and SP before the push
Pushed(m, op, v) ==
    /\ cpu' = m.c
    /\ heap' = m.h
    /\ call' = [op |-> op, arg |-> [v |-> v, sp |-> cpu.sp], ret |-> 0]
    /\ used' = [used EXCEPT !.calls = @ + 1]
    /\ UNCHANGED <<hist, loop>>

\* the ghost of a pull: the call it follows and, after a push, what that
\* push recorded
Pulled(p, op) ==
    /\ cpu' = p.c
    /\ heap' = p.h
    /\ call' = [op |-> op,
                arg |-> IF call.op \in {"_cpu_push_byte", "_cpu_push_word"}
                        THEN [after |-> call.op, v |-> call.arg.v, sp |-> call.arg.sp]
                        ELSE [after |-> call.op, v |-> -1, sp |-> -1],
                ret |-> p.val]
    /\ used' = [used EXCEPT !.calls = @ + 1]
    /\ UNCHANGED <<hist, loop>>

PushByte ==
    /\ used.calls < MaxStackOps
    /\ \E b \in StackBytes : Pushed(cpu_push_byte(M, b), "_cpu_push_byte", b)

PushWord ==
    /\ used.calls < MaxStackOps
    /\ \E w \in StackWords : Pushed(cpu_push_word(M, w), "_cpu_push_word", w)

PullByte ==
    /\ used.calls < MaxStackOps
    /\ Pulled(cpu_pull_byte(M), "_cpu_pull_byte")

PullWord ==
    /\ used.calls < MaxStackOps
    /\ \E ord \in EvalOrders : Pulled(cpu_pull_word(M, ord), "_cpu_pull_word")

NextStack == PushByte \/ PushWord \/ PullByte \/ PullWord

SpecStack == InitStack /\ [][NextStack]_vars

\* C1, bytes: a pull_byte right after push_byte(v) returns v and SP is
\* what it was before the push.
C1_ByteRoundTrip ==
    (call.op = "_cpu_pull_byte" /\ call.arg.after = "_cpu_push_byte") =>
        /\ call.ret = call.arg.v
        /\ cpu.sp = call.arg.sp

\* C1, words: a pull_word right after push_word(w) returns w and SP is
\* what it was before the push.
C1_WordRoundTrip ==
    (call.op = "_cpu_pull_word" /\ call.arg.after = "_cpu_push_word") =>
        /\ call.ret = call.arg.v
        /\ cpu.sp = call.arg.sp

(* C1: for every SP and every value, a push immediately followed by the    *)
(* pull of the same width returns the value pushed and restores SP, for    *)
(* bytes and for words, SP wrapping or not.                                *)
C1_RoundTrip == C1_ByteRoundTrip /\ C1_WordRoundTrip

-----------------------------------------------------------------------------
(* The packed status byte on its own: any combination of the flags         *)

StatusBytes == {0, 32, 48, 207, 255}

InitStatus ==
    /\ \E n \in {0, 1}, v \in {0, 1}, b \in {0, 1}, d \in {0, 1},
          i \in {0, 1}, z \in {0, 1}, c \in {0, 1} :
         cpu = [Machine.c EXCEPT !.n = n, !.v = v, !.b = b, !.d = d,
                                 !.i = i, !.z = z, !.c = c]
    /\ heap = Machine.h
    /\ hist = <<Machine.c.mem[2], Machine.c.mem[1]>>
    /\ call = NoCall
    /\ loop = [on |-> FALSE, count |-> 0]
    /\ used = [calls |-> 0, writes |-> 0]

GetStatus ==
    /\ call' = [op |-> "_cpu_get_status", arg |-> cpu, ret |-> cpu_get_status(cpu)]
    /\ UNCHANGED <<cpu, heap, hist, loop, used>>

\* the byte unpacked is any byte, or the one _cpu_get_status just returned
SetStatus ==
    /\ \E status \in StatusBytes \cup
                     (IF call.op = "_cpu_get_status" THEN {call.ret} ELSE {}) :
         /\ cpu' = cpu_set_status(cpu, status)
         /\ call' = [op |-> "_cpu_set_status",
                     arg |-> [status |-> status,
                              packed |-> call.op = "_cpu_get_status" /\ status = call.ret,
                              before |-> cpu],
                     ret |-> 0]
    /\ UNCHANGED <<heap, hist, loop, used>>

NextStatus == GetStatus \/ SetStatus

SpecStatus == InitStatus /\ [][NextStatus]_vars

(* C2: unpacking the byte that _cpu_get_status packed from the flags gives *)
(* every one of N, V, B, D, I, Z, C the truth value it had.                *)
C2_StatusRoundTrip ==
    (call.op = "_cpu_set_status" /\ call.arg.packed) =>
        Truth(cpu) = Truth(call.arg.before)

(* C3: the byte _cpu_get_status returns has bit 7 = N, bit 6 = V,          *)
(* bit 4 = B, bit 3 = D, bit 2 = I, bit 1 = Z, bit 0 = C, and bit 5 = 1.   *)
C3_StatusLayout ==
    call.op = "_cpu_get_status" =>
        /\ Bit(call.ret, 7) = NonZero(cpu.n)
        /\ Bit(call.ret, 6) = NonZero(cpu.v)
        /\ Bit(call.ret, 5) = 1
        /\ Bit(call.ret, 4) = NonZero(cpu.b)
        /\ Bit(call.ret, 3) = NonZero(cpu.d)
        /\ Bit(call.ret, 2) = NonZero(cpu.i)
        /\ Bit(call.ret, 1) = NonZero(cpu.z)
        /\ Bit(call.ret, 0) = NonZero(cpu.c)

-----------------------------------------------------------------------------
(* The region list and the two paths to the first two pages *)

Reverse(seq) == [k \in 1..Len(seq) |-> seq[Len(seq) + 1 - k]]

\* the registrations and the host's writes through the bus alone
NextBus == AddRam \/ AddRomData \/ AddRomFile \/ AddIom \/ BusWrite

SpecBus == Init /\ [][NextBus]_vars

\* the registration, in order, of the last region registered over addr
Latest(addr) ==
    LET cov == {k \in 1..Len(hist) : Covers(hist[k], addr)}
    IN  IF cov = {} THEN 0 ELSE CHOOSE k \in cov : \A j \in cov : j <= k

ProbeAddrs == {0, 15, 16, 255, 256, 447, 448, 511, 512, 65279, 65280, 65532, 65535}

(* C4: the region list is the registrations, the last one first; a read at  *)
(* an address is served by the last region registered over it, be it the    *)
(* only one or one of several, and so is a write.                           *)
C4_RegionPriority ==
    /\ cpu.mem = Reverse(hist)
    /\ \A addr \in ProbeAddrs :
         Latest(addr) # 0 =>
            LET r == hist[Latest(addr)]
            IN  /\ cpu.mem[mem_find(cpu, addr)] = r
                /\ mem_get_byte(cpu, heap, addr) = BufGet(heap[r.obj], addr - r.start)
    /\ call.op = "mem_set_byte" =>
         LET addr == call.arg[1]
             r    == hist[Latest(addr)]
         IN  r.write_handler # NO_HANDLER =>
                BufGet(heap[r.obj], addr - r.start) = call.arg[2]

\* a device registered over the start of the RAM: a write at 0 went to the
\* device and not to the RAM, and 511 is still served by the RAM
C4_Witness ==
    /\ Len(hist) = 2
    /\ hist[1].type = "MEM_TYPE_RAM" /\ hist[1].start = 0 /\ hist[1].length = 512
    /\ hist[2].type = "MEM_TYPE_IOM" /\ hist[2].start = 0
    /\ call.op = "mem_set_byte" /\ call.arg = <<0, 66>>
    /\ mem_get_byte(cpu, heap, 0) = 66
    /\ BufGet(heap[hist[1].obj], 0) # 66
    /\ cpu.mem[mem_find(cpu, 511)] = hist[1]

(* C5: whenever the cached buffer exists, at every address of the zero     *)
(* page and the stack page the bus is served by the cached buffer itself,  *)
(* so that a read through the bus and a direct read give the same byte,    *)
(* whatever was registered and written before.                             *)
C5_DirectIsBus ==
    cpu.memory # NULL =>
        \A addr \in 0..511 :
            /\ Mapped(cpu, addr)
            /\ cpu.mem[mem_find(cpu, addr)].obj = cpu.memory
            /\ cpu.mem[mem_find(cpu, addr)].start = 0
            /\ mem_get_byte(cpu, heap, addr) = mem_get_byte_direct(cpu, heap, addr)

-----------------------------------------------------------------------------
(* The strict flag *)

(* C11: cpu_strict(cpu, b) is a toggle: after the call strict mode is on   *)
(* exactly when b is true, so that cpu_strict(cpu, false) after            *)
(* cpu_strict(cpu, true) leaves strict mode off.                           *)
C11_StrictToggle ==
    call.op = "cpu_strict" => (cpu.strict <=> call.arg)

\* a fresh cpu on which cpu_strict is never called: the host registers
\* memory and then resets, interrupts, steps and runs
NextDefault ==
    \/ AddRam \/ AddRomData
    \/ Reset \/ Irq \/ Nmi \/ Step
    \/ Run \/ Boot \/ RunStep

SpecDefault == Init /\ [][NextDefault]_vars

(* C12: from cpu_init on, while cpu_strict has not been called, strict     *)
(* mode is off, no step (alone or in cpu_run) returns StackOverflow or     *)
(* StackUnderflow whatever headroom its descriptor declares and whatever   *)
(* SP is, and irq and nmi return 0 with SP three lower modulo 256.         *)
C12_NonStrictDefault ==
    /\ ~cpu.strict
    /\ Executed =>
         call.ret \notin {EWM_CPU_ERR_STACK_OVERFLOW, EWM_CPU_ERR_STACK_UNDERFLOW}
    /\ call.op \in {"cpu_irq", "cpu_nmi"} =>
         /\ call.ret = 0
         /\ cpu.sp = (Pre.c.sp + 253) % 256

\* on the fresh cpu (SP = 0) a step executed BRK, whose descriptor declares
\* three bytes of headroom, and SP wrapped to 0xFD
C12_Witness ==
    /\ call.op = "cpu_step" /\ call.ret = 0
    /\ Pre.c.sp = 0 /\ Fetch(Pre).stack = 3
    /\ cpu.sp = 253

-----------------------------------------------------------------------------
(* SP and the stack page *)

\* the byte of the cached buffer at an offset, in the buffers h
Cached(h, off) == BufGet(h[cpu.memory], off)

\* the offsets at which the cached buffer differs between h1 and h2, two
\* states of the same block (the bytes never written are the same in both)
Touched(h1, h2) ==
    {off \in DOMAIN h1[cpu.memory].cells \cup DOMAIN h2[cpu.memory].cells :
        Cached(h1, off) # Cached(h2, off)}

(* C13: SP is always in 0..255; a push of a byte stores it at 0x0100 + SP  *)
(* and leaves SP one lower modulo 256 (at SP = 0: stored at 0x0100, SP     *)
(* becomes 0xFF), a pull leaves SP one higher modulo 256 and returns the   *)
(* byte at 0x0100 + the new SP (at SP = 0xFF: SP becomes 0, read at        *)
(* 0x0100); a word moves SP by two modulo 256 and touches the two bytes    *)
(* in between; no push or pull changes a byte outside 0x0100-0x01FF or     *)
(* any other buffer.                                                       *)
C13_SpWraps ==
    /\ [](cpu.sp \in 0..255)
    /\ [][/\ call'.op = "_cpu_push_byte" =>
               /\ cpu'.sp = (cpu.sp + 255) % 256
               /\ Cached(heap', STACK_PAGE + cpu.sp) = call'.arg.v
               /\ Touched(heap, heap') \subseteq {STACK_PAGE + cpu.sp}
          /\ call'.op = "_cpu_pull_byte" =>
               /\ cpu'.sp = (cpu.sp + 1) % 256
               /\ call'.ret = Cached(heap, STACK_PAGE + cpu'.sp)
               /\ heap' = heap
          /\ call'.op = "_cpu_push_word" =>
               /\ cpu'.sp = (cpu.sp + 254) % 256
               /\ Touched(heap, heap') \subseteq
                     {STACK_PAGE + cpu.sp, STACK_PAGE + ((cpu.sp + 255) % 256)}
          /\ call'.op = "_cpu_pull_word" =>
               /\ cpu'.sp = (cpu.sp + 2) % 256
               /\ heap' = heap
          /\ Touched(heap, heap') \subseteq 256..511
          /\ heap'[cpu.memory].image = heap[cpu.memory].image
          /\ heap'[cpu.memory].fill = heap[cpu.memory].fill
          /\ \A k \in 1..Len(heap) : k # cpu.memory => heap'[k] = heap[k]
         ]_vars

\* a push at SP = 0 and then a pull at SP = 0xFF: SP is 0 again and the
\* pull returned the byte that the push stored at 0x0100
C13_Witness ==
    /\ call.op = "_cpu_pull_byte" /\ call.arg.after = "_cpu_push_byte"
    /\ call.arg.sp = 0 /\ cpu.sp = 0
    /\ call.ret = call.arg.v /\ call.ret = StackAt(0) /\ call.ret = 128

-----------------------------------------------------------------------------
(* The run loop *)

(* C14: cpu_run and cpu_boot never return 0.  Each turn of the loop is one *)
(* cpu_execute_instruction: when it returns 0 the loop goes on with the    *)
(* count one higher, and when it returns an error the loop ends, the call  *)
(* returns that error and the count stays (the failing instruction is not  *)
(* counted); so the error returned is the first one, and while the         *)
(* instructions return 0 the call does not return.  The loop starts with   *)
(* the count at 0, from the machine as it is (cpu_run) or as cpu_reset     *)
(* leaves it (cpu_boot).                                                   *)
C14_RunLoop ==
    /\ [](call.op \in {"cpu_run", "cpu_boot"} =>
            /\ call.ret # 0
            /\ loop.on <=> call.ret = PENDING)
    /\ [][/\ (~loop.on /\ loop'.on) =>
               /\ loop'.count = 0
               /\ call'.op = "cpu_run" => (cpu' = cpu /\ heap' = heap)
               /\ call'.op = "cpu_boot" => [c |-> cpu', h |-> heap'] = cpu_reset(M)
          /\ loop.on =>
               /\ call'.op = call.op
               /\ \E ord \in EvalOrders, ub \in Overruns :
                    LET r == cpu_execute_instruction(M, ord, ub)
                    IN  /\ cpu' = r.c
                        /\ heap' = r.h
                        /\ CASE r.ret = 0 ->
                                  /\ loop'.on
                                  /\ loop'.count = loop.count + 1
                             [] r.ret = CRASHED ->
                                  call'.ret = CRASHED
                             [] OTHER ->
                                  /\ ~loop'.on
                                  /\ loop'.count = loop.count
                                  /\ call'.ret = r.ret
         ]_vars

\* a cpu_run in strict mode from PHA at SP = 1: PHA is executed and
\* counted, JSR is refused, and the call returns StackOverflow with the
\* count at 1
C14_Witness ==
    /\ call.op = "cpu_run" /\ ~loop.on
    /\ call.ret = EWM_CPU_ERR_STACK_OVERFLOW
    /\ loop.count = 1
    /\ Fetch(Pre).handler = "jsr" /\ cpu.sp = 0

-----------------------------------------------------------------------------
(* What a new RAM region holds *)

(* C15: right after cpu_add_ram(cpu, start, length) every address of       *)
(* [start, start + length) reads as 0.                                     *)
C15_RamZeroed ==
    call.op = "cpu_add_ram" =>
        \A addr \in call.arg[1]..(call.arg[1] + call.arg[2] - 1) :
            mem_get_byte(cpu, heap, addr) = 0

-----------------------------------------------------------------------------
(* ROM images loaded from files *)

\* the call gave up: open or fstat failed, the file is larger than what is
\* left of the address space above start, or read did not return it whole
LoadFails(start, f) ==
    \/ ~f.open
    \/ ~f.stat
    \/ f.size > 65536 - start
    \/ f.read # f.size

(* C16: a cpu_add_rom_file that cannot open or stat the file, finds it     *)
(* larger than 65536 - start bytes, or cannot read it whole, returns       *)
(* nothing and leaves the region list, the cached buffer, the rest of the  *)
(* cpu and every buffer as they were.                                      *)
C16_LoadFailure ==
    [][(call'.op = "cpu_add_rom_file" /\ LoadFails(call'.arg[1], call'.arg[2])) =>
          /\ cpu' = cpu
          /\ heap' = heap
          /\ hist' = hist
          /\ call'.ret = 0
      ]_vars

\* a file of 257 bytes for 0xFF00, one byte too many, after a RAM was
\* registered: the RAM is still the only region
C16_Witness ==
    /\ call.op = "cpu_add_rom_file"
    /\ call.arg[1] = 65280 /\ call.arg[2].size = 257 /\ call.arg[2].read = 257
    /\ Len(hist) = 1 /\ cpu.mem = <<hist[1]>> /\ cpu.memory # NULL

(* C20: a cpu_add_rom_file of a readable file of s <= 65536 - start bytes  *)
(* registers, ahead of the other regions, a ROM region at start of length  *)
(* s that reads as the file does from its first byte to its last; start =  *)
(* 0 and s = 65536 included.                                               *)
C20_LoadWhole ==
    (call.op = "cpu_add_rom_file" /\ ~LoadFails(call.arg[1], call.arg[2])) =>
        LET start == call.arg[1]
            f     == call.arg[2]
        IN  /\ cpu.mem # <<>>
            /\ Head(cpu.mem).type = "MEM_TYPE_ROM"
            /\ Head(cpu.mem).start = start
            /\ Head(cpu.mem).length = f.size
            /\ \A addr \in {start, start + f.size - 1} :
                 f.size > 0 => mem_get_byte(cpu, heap, addr) = ImageByte(f.image, addr - start)

-----------------------------------------------------------------------------
(* The program counter.  The machine in use, with two more bytes           *)
(* registered over the top of the address space: an instruction at 0xFFFE  *)
(* or 0xFFFF has its operand, and the instruction after it, at 0x0000.     *)

TopMachine == cpu_add_rom_data(Machine, 65534, 2, "top")

TopPcVals == PcVals \cup {65534, 65535}

InitTop ==
    /\ \E sp \in SpVals, pc \in TopPcVals, st \in BOOLEAN, tr \in {0, 1} :
         cpu = [TopMachine.c EXCEPT !.sp = sp, !.pc = pc, !.a = 17,
                                    !.strict = st, !.trace = tr]
    /\ heap = TopMachine.h
    /\ hist = Reverse(TopMachine.c.mem)
    /\ call = NoCall
    /\ loop = [on |-> FALSE, count |-> 0]
    /\ used = [calls |-> 0, writes |-> 0]

NextTop == Step \/ Run \/ RunStep

SpecTop == InitTop /\ [][NextTop]_vars

\* the last call executed an instruction, from Pre, and it returned 0
Stepped ==
    \/ call.op = "cpu_step" /\ call.ret = 0
    \/ call.op \in {"cpu_run", "cpu_boot"} /\ call.ret = PENDING /\ loop.count > 0

\* the byte at offset k after the opcode that Pre fetched, address wrapped
AfterOpcode(k) == mem_get_byte(Pre.c, Pre.h, (Pre.c.pc + k) % 65536)

(* C17: after a step that returned 0, from PC = p and a descriptor of      *)
(* length n: a handler that leaves PC alone (NOP, LDA, PHA, PLA)           *)
(* leaves PC = (p + n) mod 2^16; JMP and JSR leave PC = their operand, RTS *)
(* the word it pulled plus one; the handler found PC = (p + n) mod 2^16    *)
(* (JSR pushed that minus one); and the operand is the byte at p + 1 for   *)
(* n = 2 and the little-endian word at p + 1, p + 2 for n = 3, addresses   *)
(* modulo 2^16.                                                            *)
C17_PcAdvance ==
    Stepped =>
        LET p    == Pre.c.pc
            i    == Fetch(Pre)
            next == (p + i.bytes) % 65536
            byte == AfterOpcode(1)
            word == AfterOpcode(1) + 256 * AfterOpcode(2)
            s    == Pre.c.sp
        IN  CASE i.handler \in {"nop", "pha", "pla"} ->
                   cpu.pc = next
              [] i.handler = "lda" ->
                   /\ i.bytes = 2
                   /\ cpu.pc = next
                   /\ cpu.a = byte
              [] i.handler = "jmp" ->
                   /\ i.bytes = 3
                   /\ cpu.pc = word
              [] i.handler = "jsr" ->
                   /\ i.bytes = 3
                   /\ cpu.pc = word
                   /\ StackAt(s) = ((next + 65535) % 65536) \div 256
                   /\ StackAt((s + 255) % 256) = ((next + 65535) % 65536) % 256
              [] i.handler = "rts" ->
                   LET b1 == mem_get_byte_direct(Pre.c, Pre.h, STACK_PAGE + ((s + 1) % 256))
                       b2 == mem_get_byte_direct(Pre.c, Pre.h, STACK_PAGE + ((s + 2) % 256))
                   IN  cpu.pc \in {(b1 + 256 * b2 + 1) % 65536, (b2 + 256 * b1 + 1) % 65536}
              [] OTHER -> TRUE

\* a JSR fetched at 0xFFFE: its operand is the byte at 0xFFFF and the byte
\* at 0x0000, the return address it pushed is 0x0000, and PC is the operand
C17_Witness ==
    /\ call.op = "cpu_step" /\ call.ret = 0
    /\ Pre.c.pc = 65534 /\ Fetch(Pre).handler = "jsr"
    /\ cpu.pc = 169 + 256 * 165
    /\ StackAt(Pre.c.sp) = 0

-----------------------------------------------------------------------------
(* The tracer *)

\* the last call executed an instruction to the end of its handler, traced
Traced ==
    /\ Stepped \/ (Executed /\ call.ret = CRASHED)
    /\ Pre.c.trace # 0

(* C19: after a traced instruction has been executed, whatever SP is, the  *)
(* string that cpu_format_stack builds (three characters for every byte    *)
(* from SP up to 0xFF excluded) fits, with its terminator, the 256 bytes   *)
(* of trace_stack.                                                         *)
C19_StackStringFits ==
    Traced => Len(cpu_format_stack(cpu, heap)) + 1 <= TRACE_BUFFER

\* what the last instruction returned; 0 while cpu_run goes on
LastRet == IF call.ret = PENDING THEN 0 ELSE call.ret

\* the cpu c with the trace flag of the machine the call started from
AsTraced(c) == [c EXCEPT !.trace = Pre.c.trace]

\* the machine the call started from, with tracing off
Untraced == [Pre EXCEPT !.c.trace = 0]

(* C18: a call on a cpu with tracing on returns what the same call on the  *)
(* same cpu with tracing off returns, and leaves the same registers, flags *)
(* and memory: for an instruction executed by cpu_step, cpu_run or         *)
(* cpu_boot, and for cpu_irq, cpu_nmi and cpu_reset.                       *)
C18_TraceIsCosmetic ==
    /\ (Executed /\ Pre.c.trace # 0) =>
         \E ord \in EvalOrders, ub \in Overruns :
            LET u == cpu_execute_instruction(Untraced, ord, ub)
            IN  /\ LastRet = u.ret
                /\ cpu = AsTraced(u.c)
                /\ heap = u.h
    /\ (call.op = "cpu_irq" /\ Pre.c.trace # 0) =>
         /\ call.ret = cpu_irq(Untraced).ret
         /\ cpu = AsTraced(cpu_irq(Untraced).c)
         /\ heap = cpu_irq(Untraced).h
    /\ (call.op = "cpu_nmi" /\ Pre.c.trace # 0) =>
         /\ call.ret = cpu_nmi(Untraced).ret
         /\ cpu = AsTraced(cpu_nmi(Untraced).c)
         /\ heap = cpu_nmi(Untraced).h
    /\ (call.op = "cpu_reset" /\ Pre.c.trace # 0) =>
         /\ cpu = AsTraced(cpu_reset(Untraced).c)
         /\ heap = cpu_reset(Untraced).h

====
